---- MODULE Spec2Model ----
(***************************************************************************)
(* State-machine model of XrApp (src/src/lib.rs): the asynchronous session *)
(* negotiation init(), the loop starter start() and the self re-arming     *)
(* frame closure, run on the single-threaded JavaScript scheduler.         *)
(*                                                                         *)
(* Every action is one callback run to completion: the synchronous part of *)
(* init(), one continuation of its future (from one .await to the next),   *)
(* one start() call, or one device tick of the host, in which the frame    *)
(* closures registered on the session are invoked one after the other.     *)
(*                                                                         *)
(* The host runtime keeps at most one session active, may end it at any    *)
(* time, and serves only the active session: no session is granted while   *)
(* one is active, and an ended session gets no reference space and no      *)
(* tick.                                                                   *)
(*                                                                         *)
(* A Rust panic (unwrap on None/Err, a RefCell borrow conflict) aborts the *)
(* running callback on the wasm32 target: nothing unwinds, so a RefCell    *)
(* guard that is alive at the panic is never released and the promise of   *)
(* the future is never settled.  A JavaScript exception thrown by an       *)
(* import that is not declared `catch` leaves the callback the same way.   *)
(***************************************************************************)
EXTENDS Integers, Sequences, FiniteSets, TLC

\* ---------------------------------------------------------------- bounds
MaxInits == 2    \* init() calls
MaxStarts == 2   \* start() calls that run the GPU setup
MaxTicks == 3    \* consecutive good ticks counted for one loop
MaxViews == 2    \* views a viewer pose may carry

\* ------------------------------------------------------------- constants
None == 0        \* Option::None in a shared cell; handles are 1, 2, ...
NoPose == 0      \* get_viewer_pose returned None; a pose is its view count
NoEye == -1      \* a call that carries no view index

VARIABLES
    session,         \* XrApp.session:   None or the committed session handle
    ref_space,       \* XrApp.ref_space: None or the session the space is of
    session_flag,    \* RefCell borrow state of session:   free/shared/mut
    ref_space_flag,  \* RefCell borrow state of ref_space: free/shared/mut
    inits,           \* the future of each init() call, in call order
    overlap,         \* two init() futures have been in flight at once
    live,            \* the session the host keeps active, or None
    gl,              \* the WebGL context: bound program, setups run
    loops,           \* one record per frame closure created by start()
    pending,         \* callbacks registered for the next tick (loop ids)
    ev               \* the callback that ran last and what it did

vars == <<session, ref_space, session_flag, ref_space_flag, inits, overlap,
          live, gl, loops, pending, ev>>

Call(c, eye) == [c |-> c, eye |-> eye]

\* Number of entries of a call sequence that are the call named c.
Count(calls, c) == Cardinality({i \in 1..Len(calls) : calls[i].c = c})

\* What is observed of one callback: which one ran (op, id), the host's
\* answer it was resumed with, how it ended (out), how the promise of the
\* init settled (result), the source line of a panic, the host and GL
\* calls it issued in order, the calls its init() had issued before it
\* (hist), its log lines and the shared cells it wrote.  For a tick, frames
\* holds the frame steps it ran.
Event(op, id, ans, out, result, panic, calls, hist, logs, wrote) ==
    [op |-> op, id |-> id, ans |-> ans, out |-> out, result |-> result,
     panic |-> panic, calls |-> calls, hist |-> hist, logs |-> logs,
     wrote |-> wrote, frames |-> <<>>]

\* ------------------------------------------------------------ negotiation
\* A continuation of the future: where it stops (pc), how the promise is
\* settled, the line of a panic, the host calls issued and the log lines.
Step(pc, result, panic, calls, logs) ==
    [pc |-> pc, result |-> result, panic |-> panic, calls |-> calls,
     logs |-> logs]

\* The future of one init() call: the await it is suspended at, its local
\* xr_session and the host requests it has issued.  A future that has
\* returned or panicked is gone: only pc = "done" is left of it.
Future(pc, xr, calls) ==
    IF pc = "done"
    THEN [pc |-> pc, xr |-> None, calls |-> <<>>]
    ELSE [pc |-> pc, xr |-> xr, calls |-> calls]

\* init(), synchronous part: log, issue the capability query, spawn the
\* future.
InitCall ==
    /\ Len(inits) < MaxInits
    /\ LET q == <<Call("is_session_supported", NoEye)>> IN
       /\ inits' = Append(inits, Future("await_supported", None, q))
       /\ ev' = Event("init", Len(inits) + 1, "none", "await_supported",
                      "none", 0, q, <<>>, <<"Starting WebXR...">>, {})
    /\ overlap' = (overlap \/ \E p \in 1..Len(inits) : inits[p].pc # "done")
    /\ UNCHANGED <<session, ref_space, session_flag, ref_space_flag, live,
                   gl, loops, pending>>

\* Variant: the negative answer is not looked at.
IsUnsupported_Never(ans) == FALSE

\* `supports_session == false`
IsUnsupported(ans) == ans = "false"

\* Continuation after the capability query settles.
AfterSupported(ans) ==
    IF ans = "reject"
    THEN Step("done", "none", 86, <<>>, <<>>)
    ELSE IF IsUnsupported(ans)
    THEN Step("done", "Ok_false", 0, <<>>, <<"XR session not supported">>)
    ELSE Step("await_session", "none", 0,
              <<Call("request_session", NoEye)>>, <<>>)

InitSupported(p, ans) ==
    /\ p \in 1..Len(inits)
    /\ inits[p].pc = "await_supported"
    /\ LET st == AfterSupported(ans) IN
       /\ inits' = [inits EXCEPT ![p] =
                       Future(st.pc, None, inits[p].calls \o st.calls)]
       /\ ev' = Event("init_supported", p, ans, st.pc, st.result, st.panic,
                      st.calls, inits[p].calls, st.logs, {})
    /\ UNCHANGED <<session, ref_space, session_flag, ref_space_flag, overlap,
                   live, gl, loops, pending>>

\* Variant: the reference space is requested before the render target is
\* bound.
AfterSession_RefSpaceFirst(ans, bindOk) ==
    IF ans = "reject"
    THEN Step("done", "none", 97, <<>>, <<>>)
    ELSE IF ~bindOk
    THEN Step("done", "Err_layer", 0,
              <<Call("request_reference_space", NoEye),
                Call("new_layer", NoEye)>>, <<>>)
    ELSE Step("await_refspace", "none", 0,
              <<Call("request_reference_space", NoEye),
                Call("new_layer", NoEye), Call("update_render_state", NoEye)>>,
              <<>>)

\* Continuation after the session request settles: unwrap the session, bind
\* the render target (XrWebGlLayer + update_render_state), request the
\* reference space.
AfterSession(ans, bindOk) ==
    IF ans = "reject"
    THEN Step("done", "none", 97, <<>>, <<>>)
    ELSE IF ~bindOk
    THEN Step("done", "Err_layer", 0, <<Call("new_layer", NoEye)>>, <<>>)
    ELSE Step("await_refspace", "none", 0,
              <<Call("new_layer", NoEye), Call("update_render_state", NoEye),
                Call("request_reference_space", NoEye)>>, <<>>)

\* The host runtime keeps at most one session active: it grants a session
\* only while none is active.
SessionGrantable(l) == l = None

\* The session granted to the p-th init() call is handle p.
InitSession(p, ans, bindOk) ==
    /\ p \in 1..Len(inits)
    /\ inits[p].pc = "await_session"
    /\ ans = "grant" => SessionGrantable(live)
    /\ live' = IF ans = "grant" THEN p ELSE live
    /\ LET st == AfterSession(ans, bindOk) IN
       /\ inits' = [inits EXCEPT ![p] =
                       Future(st.pc, p, inits[p].calls \o st.calls)]
       /\ ev' = Event("init_session", p,
                      IF ans = "reject" THEN ans
                      ELSE IF bindOk THEN "grant" ELSE "grant_nobind",
                      st.pc, st.result, st.panic, st.calls, inits[p].calls,
                      st.logs, {})
    /\ UNCHANGED <<session, ref_space, session_flag, ref_space_flag, overlap,
                   gl, loops, pending>>

\* Variant: the commit returns after the write of session.
Commit_SessionOnly(xr, s, sf, rs, rf) ==
    [session |-> xr, session_flag |-> sf, ref_space |-> rs,
     ref_space_flag |-> rf, wrote |-> {"session"},
     step |-> Step("done", "Ok_true", 0, <<>>, <<>>)]

\* Variant: the commit keeps a reference space that is already published
\* (get_or_insert instead of replace).
Commit_KeepRefSpace(xr, s, sf, rs, rf) ==
    [session |-> xr, session_flag |-> sf,
     ref_space |-> IF rs = None THEN xr ELSE rs,
     ref_space_flag |-> rf, wrote |-> {"session", "ref_space"},
     step |-> Step("done", "Ok_true", 0, <<>>, <<>>)]

\* The commit: borrow_mut + replace on session, then on ref_space; both
\* guards are dropped when the future returns.  xr is the granted session,
\* whose reference space is stored as the handle of that session.
Commit(xr, s, sf, rs, rf) ==
    IF sf # "free"
    THEN [session |-> s, session_flag |-> sf, ref_space |-> rs,
          ref_space_flag |-> rf, wrote |-> {},
          step |-> Step("done", "none", 109, <<>>, <<>>)]
    ELSE IF rf # "free"
    THEN [session |-> xr, session_flag |-> "mut", ref_space |-> rs,
          ref_space_flag |-> rf, wrote |-> {"session"},
          step |-> Step("done", "none", 112, <<>>, <<>>)]
    ELSE [session |-> xr, session_flag |-> sf, ref_space |-> xr,
          ref_space_flag |-> rf, wrote |-> {"session", "ref_space"},
          step |-> Step("done", "Ok_true", 0, <<>>, <<>>)]

\* Variant: the answer of the reference-space request is not looked at.
AfterRefSpace_Unchecked(ans, xr, s, sf, rs, rf) ==
    [session |-> xr, session_flag |-> sf, ref_space |-> xr,
     ref_space_flag |-> rf, wrote |-> {"session", "ref_space"},
     step |-> Step("done", IF ans = "reject" THEN "none" ELSE "Ok_true",
                   IF ans = "reject" THEN 107 ELSE 0, <<>>, <<>>)]

\* Continuation after the reference-space request settles.
AfterRefSpace(ans, xr, s, sf, rs, rf) ==
    IF ans = "reject"
    THEN [session |-> s, session_flag |-> sf, ref_space |-> rs,
          ref_space_flag |-> rf, wrote |-> {},
          step |-> Step("done", "none", 107, <<>>, <<>>)]
    ELSE Commit(xr, s, sf, rs, rf)

\* The host runtime grants a reference space only of the session it keeps
\* active: the requests of a session that has ended are rejected.
RefSpaceGrantable(xr, l) == xr = l

InitRefSpace(p, ans) ==
    /\ p \in 1..Len(inits)
    /\ inits[p].pc = "await_refspace"
    /\ ans = "grant" => RefSpaceGrantable(inits[p].xr, live)
    /\ LET c == AfterRefSpace(ans, inits[p].xr, session, session_flag,
                              ref_space, ref_space_flag) IN
       /\ session' = c.session
       /\ session_flag' = c.session_flag
       /\ ref_space' = c.ref_space
       /\ ref_space_flag' = c.ref_space_flag
       /\ inits' = [inits EXCEPT ![p] =
                       Future(c.step.pc, inits[p].xr, inits[p].calls)]
       /\ ev' = Event("init_refspace", p, ans, c.step.pc, c.step.result,
                      c.step.panic, c.step.calls, inits[p].calls, c.step.logs,
                      c.wrote)
    /\ UNCHANGED <<overlap, live, gl, loops, pending>>

\* ------------------------------------------------------------------ start
\* One-time GPU setup of start(), as the calls it issues on the context.
SetupProgram ==
    <<Call("create_program", NoEye), Call("create_shader", NoEye),
      Call("create_shader", NoEye), Call("link_program", NoEye),
      Call("enable", NoEye), Call("enable", NoEye),
      Call("use_program", NoEye), Call("get_uniform_location", NoEye)>>

SetupGeometry ==
    <<Call("get_uniform_location", NoEye), Call("get_uniform_location", NoEye),
      Call("create_buffer", NoEye), Call("buffer_data", NoEye),
      Call("enable_vertex_attrib_array", NoEye),
      Call("enable_vertex_attrib_array", NoEye),
      Call("vertex_attrib_pointer", NoEye),
      Call("vertex_attrib_pointer", NoEye)>>

\* Variant: start() goes on without a session.
HasSession_Always(s) == TRUE

\* `if let Some(sess) = session { sess } else { return () }`
HasSession(s) == s # None

\* A uniform location of a program exists only once the program is linked:
\* get_uniform_location(..).unwrap() needs the link to have succeeded.
UniformLocationFound(linkOk) == linkOk

\* start() from the borrow of the session cell to its return or panic.
\* The Ref taken at its first line lives to the end of the function.
StartRun(s, sf, linkOk) ==
    IF sf = "mut"
    THEN [out |-> "panic", panic |-> 122, calls |-> <<>>, logs |-> <<>>]
    ELSE IF ~HasSession(s)
    THEN [out |-> "noop", panic |-> 0, calls |-> <<>>, logs |-> <<>>]
    ELSE IF ~UniformLocationFound(linkOk)
    THEN [out |-> "panic", panic |-> 206, calls |-> SetupProgram,
          logs |-> <<"program link errror">>]
    ELSE [out |-> "started", panic |-> 0,
          calls |-> SetupProgram \o SetupGeometry
                    \o <<Call("request_animation_frame", NoEye)>>,
          logs |-> IF linkOk THEN <<>> ELSE <<"program link errror">>]

\* A frame closure: the session it was registered on, the program its
\* uniform locations belong to, whether every tick delivered to it so far
\* was a good one and, over these ticks (run), the registrations and draws
\* it made.  Nothing is counted for a loop once a tick was not good.
Loop(s, prog, good, run, rearms, draws) ==
    IF good
    THEN [sess |-> s, prog |-> prog, good |-> TRUE, run |-> run,
          rearms |-> rearms, draws |-> draws]
    ELSE [sess |-> s, prog |-> prog, good |-> FALSE, run |-> 0,
          rearms |-> 0, draws |-> 0]

\* Variant: start() moves the session out of the cell (take()).
SessionAfterStart_Taken(s) == None

\* The session cell after start(): `self.session.borrow()` and
\* `session.clone()` read it, the value stays in the cell.
SessionAfterStart(s) == s

Start(linkOk) ==
    LET r == StartRun(session, session_flag, linkOk)
        setup == Count(r.calls, "create_program") > 0
        regs == Count(r.calls, "request_animation_frame")
        prog == gl.setups + 1 IN
    /\ setup => gl.setups < MaxStarts
    /\ gl' = IF setup
             THEN [program |-> IF linkOk THEN prog ELSE gl.program,
                   setups |-> prog]
             ELSE gl
    /\ session_flag' = IF r.panic = 206 THEN "shared" ELSE session_flag
    /\ loops' = IF regs > 0 THEN Append(loops, Loop(session, prog, TRUE, 0, 0, 0))
                ELSE loops
    /\ pending' = pending \o [i \in 1..regs |-> Len(loops) + 1]
    /\ ev' = Event("start", IF regs > 0 THEN Len(loops) + 1 ELSE 0,
                   IF linkOk THEN "link" ELSE "nolink", r.out, "none",
                   r.panic, r.calls, <<>>, r.logs, {})
    /\ session' = SessionAfterStart(session)
    /\ UNCHANGED <<ref_space, ref_space_flag, inits, overlap, live>>

\* ------------------------------------------------------------- frame loop
\* Bind the layer's framebuffer and clear it.
ClearCalls ==
    <<Call("bind_framebuffer", NoEye), Call("clear_color", NoEye),
      Call("clear", NoEye)>>

\* One eye block: viewport from gl_layer.get_viewport(view i), projection
\* and inverse-pose uniforms of view i, one draw.
EyeCalls(i) ==
    <<Call("viewport", i), Call("uniform_projection", i),
      Call("uniform_view", i), Call("draw_arrays", NoEye)>>

\* Variant: the two eye blocks take the views the other way round.
FrameEyes_Swapped == <<1, 0>>

\* views.get(0) in the first block, views.get(1) in the second.
FrameEyes == <<0, 1>>

\* Variants: the closure does not register itself; it registers twice.
Rearm_None == <<>>
Rearm_Twice ==
    <<Call("request_animation_frame", NoEye),
      Call("request_animation_frame", NoEye)>>

\* The registration the closure makes as its last statement.
Rearm == <<Call("request_animation_frame", NoEye)>>

\* Variant: the closure registers itself for the next tick as its first
\* statement instead of its last.
FrameRun_RearmFirst(layer, pose, rs, rf) ==
    IF ~layer
    THEN [out |-> "panic", panic |-> 251, calls |-> Rearm, leak |-> FALSE]
    ELSE IF rf = "mut"
    THEN [out |-> "panic", panic |-> 260, calls |-> Rearm \o ClearCalls,
          leak |-> FALSE]
    ELSE IF rs = None
    THEN [out |-> "panic", panic |-> 261, calls |-> Rearm \o ClearCalls,
          leak |-> TRUE]
    ELSE LET c1 == Rearm \o ClearCalls \o <<Call("get_viewer_pose", NoEye)>>
             c2 == c1 \o <<Call("uniform_model", NoEye)>> IN
         IF pose = NoPose
         THEN [out |-> "panic", panic |-> 261, calls |-> c1, leak |-> TRUE]
         ELSE IF FrameEyes[1] >= pose
         THEN [out |-> "throw", panic |-> 272, calls |-> c2, leak |-> TRUE]
         ELSE IF FrameEyes[2] >= pose
         THEN [out |-> "throw", panic |-> 289,
               calls |-> c2 \o EyeCalls(FrameEyes[1]), leak |-> TRUE]
         ELSE [out |-> "completed", panic |-> 0,
               calls |-> c2 \o EyeCalls(FrameEyes[1]) \o EyeCalls(FrameEyes[2]),
               leak |-> FALSE]

\* The frame closure from its first statement to its return, panic or
\* exception.  layer: render_state().base_layer() is Some; pose: NoPose or
\* the number of views of the viewer pose; rs, rf: the ref_space cell and
\* its borrow state.  leak: the Ref on ref_space was alive when the closure
\* was left by a panic or an exception.
FrameRun(layer, pose, rs, rf) ==
    IF ~layer
    THEN [out |-> "panic", panic |-> 251, calls |-> <<>>, leak |-> FALSE]
    ELSE IF rf = "mut"
    THEN [out |-> "panic", panic |-> 260, calls |-> ClearCalls,
          leak |-> FALSE]
    ELSE IF rs = None
    THEN [out |-> "panic", panic |-> 261, calls |-> ClearCalls,
          leak |-> TRUE]
    ELSE LET c1 == ClearCalls \o <<Call("get_viewer_pose", NoEye)>>
             c2 == c1 \o <<Call("uniform_model", NoEye)>> IN
         IF pose = NoPose
         THEN [out |-> "panic", panic |-> 261, calls |-> c1, leak |-> TRUE]
         ELSE IF FrameEyes[1] >= pose
         THEN [out |-> "throw", panic |-> 272, calls |-> c2, leak |-> TRUE]
         ELSE IF FrameEyes[2] >= pose
         THEN [out |-> "throw", panic |-> 289,
               calls |-> c2 \o EyeCalls(FrameEyes[1]), leak |-> TRUE]
         ELSE [out |-> "completed", panic |-> 0,
               calls |-> c2 \o EyeCalls(FrameEyes[1]) \o EyeCalls(FrameEyes[2])
                         \o Rearm,
               leak |-> FALSE]

\* One frame step as it is observed: the loop, the shared cells it found,
\* how it ended and the calls it issued.
Frame(l, s, rs, r) ==
    [id |-> l, session |-> s, ref_space |-> rs, out |-> r.out,
     panic |-> r.panic, calls |-> r.calls]

\* The frame steps of one tick: the closures in cbs are invoked one after
\* the other with the same frame; a closure left by a panic does not stop
\* the ones after it.  Gives the steps and the borrow state of ref_space
\* after the last one.
RECURSIVE RunCallbacks(_, _, _, _, _, _)
RunCallbacks(cbs, layer, pose, s, rs, rf) ==
    IF cbs = <<>>
    THEN [frames |-> <<>>, ref_space_flag |-> rf]
    ELSE LET r == FrameRun(layer, pose, rs, rf)
             rest == RunCallbacks(Tail(cbs), layer, pose, s, rs,
                                  IF r.leak THEN "shared" ELSE rf) IN
         [frames |-> <<Frame(Head(cbs), s, rs, r)>> \o rest.frames,
          ref_space_flag |-> rest.ref_space_flag]

\* A tick is good for a loop when the host supplies the render-target
\* descriptor and a pose with both eyes.
GoodTick(layer, pose) == layer /\ pose # NoPose /\ pose >= 2

\* The answer of the host to the closures of a tick, as one word.
FrameAnswer(layer, pose) ==
    IF ~layer THEN "nolayer"
    ELSE IF pose = NoPose THEN "nopose"
    ELSE IF pose >= 2 THEN "stereo" ELSE "mono"

\* The frame steps of a tick in which loop l ran.
StepsOf(frames, l) == SelectSeq(frames, LAMBDA f : f.id = l)

\* All the calls issued in the given frame steps, in order.
RECURSIVE CallsOf(_)
CallsOf(frames) ==
    IF frames = <<>> THEN <<>> ELSE Head(frames).calls \o CallsOf(Tail(frames))

\* The callbacks the frame steps of a tick registered, in order.
RECURSIVE Registered(_)
Registered(frames) ==
    IF frames = <<>> THEN <<>>
    ELSE [i \in 1..Count(Head(frames).calls, "request_animation_frame")
             |-> Head(frames).id] \o Registered(Tail(frames))

\* The record of loop l after the frame steps of a tick.
LoopAfter(loop, mine, good) ==
    IF mine = <<>> THEN loop
    ELSE Loop(loop.sess, loop.prog, loop.good /\ good, loop.run + Len(mine),
              loop.rearms + Count(CallsOf(mine), "request_animation_frame"),
              loop.draws + Count(CallsOf(mine), "draw_arrays"))

\* The host runtime delivers ticks of the session it keeps active only.
TickDeliverable(s, l) == s = l

\* The host delivers a device tick of session s: the callbacks registered
\* on s are taken off the list (each is one-shot) and invoked in order,
\* each run to completion, with the frame of this tick.
Tick(s, layer, pose) ==
    /\ TickDeliverable(s, live)
    /\ \E i \in 1..Len(pending) : loops[pending[i]].sess = s
    /\ \A i \in 1..Len(pending) :
          loops[pending[i]].sess = s => loops[pending[i]].run < MaxTicks
    /\ \E t \in {RunCallbacks(SelectSeq(pending, LAMBDA l : loops[l].sess = s),
                              layer, pose, session, ref_space,
                              ref_space_flag)} :
       /\ pending' = SelectSeq(pending, LAMBDA l : loops[l].sess # s)
                     \o Registered(t.frames)
       /\ ref_space_flag' = t.ref_space_flag
       /\ loops' = [l \in 1..Len(loops) |->
                      LoopAfter(loops[l], StepsOf(t.frames, l),
                                GoodTick(layer, pose))]
       /\ ev' = [Event("tick", s, FrameAnswer(layer, pose), "delivered",
                       "none", 0, <<>>, <<>>, <<>>, {})
                 EXCEPT !.frames = t.frames]
    /\ UNCHANGED <<session, ref_space, session_flag, inits, overlap, live, gl>>

\* The host runtime ends the active session (the user leaves, the device
\* goes away): nothing of the program runs, the callbacks registered on
\* the session are never invoked again.
SessionEnd ==
    /\ live # None
    /\ live' = None
    /\ ev' = Event("session_end", live, "none", "ended", "none", 0, <<>>,
                   <<>>, <<>>, {})
    /\ UNCHANGED <<session, ref_space, session_flag, ref_space_flag, inits,
                   overlap, gl, loops, pending>>

\* ----------------------------------------------------------- specification
Init ==
    /\ session = None
    /\ ref_space = None
    /\ session_flag = "free"
    /\ ref_space_flag = "free"
    /\ inits = <<>>
    /\ overlap = FALSE
    /\ live = None
    /\ gl = [program |-> 0, setups |-> 0]
    /\ loops = <<>>
    /\ pending = <<>>
    /\ ev = Event("new", 0, "none", "constructed", "none", 0, <<>>, <<>>,
                  <<>>, {})

Answers == {"true", "false", "reject"}
Grants == {"grant", "reject"}
Poses == {NoPose} \cup (1..MaxViews)
\* What the host answers the closures of a tick: no render-target descriptor
\* (the pose is then never asked for), or a descriptor and a pose lookup.
FrameInputs ==
    {<<FALSE, NoPose>>} \cup {<<TRUE, pose>> : pose \in Poses}

Next ==
    \/ InitCall
    \/ \E p \in 1..MaxInits, ans \in Answers : InitSupported(p, ans)
    \/ \E p \in 1..MaxInits, ans \in Grants, bindOk \in BOOLEAN :
          InitSession(p, ans, bindOk)
    \/ \E p \in 1..MaxInits, ans \in Grants : InitRefSpace(p, ans)
    \/ \E linkOk \in BOOLEAN : Start(linkOk)
    \/ \E s \in 1..MaxInits, in \in FrameInputs : Tick(s, in[1], in[2])
    \/ SessionEnd

Spec == Init /\ [][Next]_vars

\* ------------------------------------------------------------ properties
InitOps == {"init", "init_supported", "init_session", "init_refspace"}

CellsUnchanged ==
    /\ session' = session
    /\ ref_space' = ref_space
    /\ session_flag' = session_flag
    /\ ref_space_flag' = ref_space_flag

\* C1: a continuation of init() that is resumed with the capability answer
\* false resolves the promise with false, issues no host request (the query
\* stays the only request of that init()), ends the future and leaves the
\* shared cells as they were; a future that has ended never runs again, so
\* no session request, render-target bind or reference-space request
\* follows.
C1_UnsupportedStops ==
    [][/\ (ev'.op = "init_supported" /\ ev'.ans = "false") =>
            /\ ev'.result = "Ok_false"
            /\ ev'.panic = 0
            /\ ev'.calls = <<>>
            /\ ev'.hist = <<Call("is_session_supported", NoEye)>>
            /\ inits'[ev'.id].pc = "done"
            /\ CellsUnchanged
       /\ \A p \in 1..Len(inits) :
            inits[p].pc = "done" =>
               /\ inits'[p].pc = "done"
               /\ ~(ev'.op \in InitOps /\ ev'.id = p)]_vars

C1_Witness ==
    /\ ev.op = "init_supported"
    /\ ev.ans = "false"
    /\ ev.result = "Ok_false"
    /\ session # None

\* C2: between callbacks the session cell holds a value exactly when the
\* ref_space cell does, and a commit that resolves the promise with true
\* has written both cells, with the session and its own reference space.
C2_PairPublishedTogether ==
    /\ (session = None) <=> (ref_space = None)
    /\ ev.result = "Ok_true" =>
          /\ ev.wrote = {"session", "ref_space"}
          /\ session = ev.id
          /\ ref_space = ev.id

C2_Witness ==
    /\ ev.op = "init_refspace"
    /\ ev.result = "Ok_true"
    /\ session # None
    /\ ref_space # None

\* C3: every step of an init() other than the continuation resumed with a
\* granted reference space leaves the shared cells and their borrow state
\* as they were; so an init() whose session request, render-target bind or
\* reference-space request fails writes nothing.
C3_FailedInitWritesNothing ==
    [][(/\ ev'.op \in InitOps
        /\ ev'.op = "init_refspace" => ev'.ans = "reject") =>
           /\ CellsUnchanged
           /\ ev'.wrote = {}]_vars

C3_Witness ==
    /\ ev.op \in {"init_session", "init_refspace"}
    /\ ev.ans \in {"reject", "grant_nobind"}
    /\ session # None
    /\ session # ev.id

\* C4 (as claimed): a failed session request, render-target bind or
\* reference-space request ends the init() with its promise settled by a
\* failure value, without a panic.
C4_FailureDelivered ==
    (/\ ev.op \in {"init_session", "init_refspace"}
     /\ ev.ans \in {"reject", "grant_nobind"}) =>
        /\ ev.panic = 0
        /\ ev.result \notin {"none", "Ok_true", "Ok_false"}

\* C5: start() called while the session cell is empty returns at once: it
\* issues no GL call, registers no callback, creates no loop and leaves the
\* context and the shared cells as they were.
C5_StartWithoutSessionIsNoop ==
    [][(ev'.op = "start" /\ session = None) =>
           /\ ev'.out = "noop"
           /\ ev'.calls = <<>>
           /\ pending' = pending
           /\ loops' = loops
           /\ gl' = gl
           /\ CellsUnchanged]_vars

C5_Witness ==
    /\ ev.op = "start"
    /\ ev.out = "noop"
    /\ session = None
    /\ Len(inits) > 0
    /\ inits[1].pc = "await_refspace"

\* C6: every frame step found both shared cells holding a value, and a
\* callback is registered with the host only while both hold one.
C6_FrameStepSeesBothCells ==
    /\ \A i \in 1..Len(ev.frames) :
          /\ ev.frames[i].session # None
          /\ ev.frames[i].ref_space # None
    /\ pending # <<>> => (session # None /\ ref_space # None)

C6_Witness ==
    /\ ev.op = "tick"
    /\ Len(ev.frames) > 0
    /\ ev.frames[1].out = "completed"
    /\ Len(inits) = MaxInits

\* C7 (as claimed): a frame step whose viewer-pose lookup returns no pose
\* issues no draw call, registers the callback for the next tick exactly
\* once and returns normally.
C7_PoseLossSkipsDraw ==
    \A i \in 1..Len(ev.frames) :
       ev.ans = "nopose" =>
          /\ Count(ev.frames[i].calls, "draw_arrays") = 0
          /\ Count(ev.frames[i].calls, "request_animation_frame") = 1
          /\ ev.frames[i].out = "completed"

\* The positions of the draw calls in a call sequence, in order.
Draws(calls) ==
    SelectSeq([i \in 1..Len(calls) |-> i],
              LAMBDA i : calls[i].c = "draw_arrays")

\* C8: a frame step that runs to completion issues exactly two draw calls;
\* the three calls right before the k-th draw are the viewport set, the
\* projection upload and the inverse-pose upload of view k-1, so the draw
\* of view 0 comes before the draw of view 1.
C8_TwoDrawsLeftThenRight ==
    \A i \in 1..Len(ev.frames) :
       ev.frames[i].out = "completed" =>
          LET calls == ev.frames[i].calls
              d == Draws(calls) IN
          /\ Len(d) = 2
          /\ \A k \in 1..2 :
                /\ d[k] > 3
                /\ calls[d[k] - 3] = Call("viewport", k - 1)
                /\ calls[d[k] - 2] = Call("uniform_projection", k - 1)
                /\ calls[d[k] - 1] = Call("uniform_view", k - 1)

C8_Witness ==
    /\ ev.op = "tick"
    /\ ev.ans = "stereo"
    /\ Len(ev.frames) > 0
    /\ ev.frames[1].out = "completed"
    /\ Count(ev.frames[1].calls, "draw_arrays") = 2

\* C9: a loop to which n consecutive good ticks have been delivered since
\* start() has made exactly n registrations in its frame steps and exactly
\* 2n draw calls.
C9_RearmsAndDrawsPerTick ==
    \A l \in 1..Len(loops) :
       loops[l].good =>
          /\ loops[l].rearms = loops[l].run
          /\ loops[l].draws = 2 * loops[l].run

C9_Witness ==
    /\ Len(inits) = 1
    /\ gl.setups = 1
    /\ Len(loops) = 1
    /\ loops[1].good
    /\ loops[1].run = 3
    /\ loops[1].rearms = 3
    /\ loops[1].draws = 6

\* C10: a loop that start() has begun and whose ticks were all good (with
\* a render-target descriptor and a pose with both eyes) has a callback
\* pending with the host between any two callbacks: it never stops by
\* itself.
C10_GoodLoopStaysRegistered ==
    \A l \in 1..Len(loops) :
       loops[l].good => \E i \in 1..Len(pending) : pending[i] = l

C10_Witness ==
    /\ Len(loops) = 2
    /\ loops[1].good /\ loops[1].run >= 2
    /\ loops[2].good /\ loops[2].run >= 1
    /\ ev.op = "tick"

\* C11: in a run in which no two init() futures were ever in flight at the
\* same time, a shared cell that holds a value keeps that value: no later
\* init() commits over a published session or reference space, so the pair
\* is committed at most once.
C11_WriteOnce ==
    [][~overlap' =>
          /\ session # None => session' = session
          /\ ref_space # None => ref_space' = ref_space]_vars

\* The host operations of one negotiation, in the order of the claim.
NegotiationOrder ==
    <<Call("is_session_supported", NoEye), Call("request_session", NoEye),
      Call("new_layer", NoEye), Call("update_render_state", NoEye),
      Call("request_reference_space", NoEye)>>

\* The requests whose result the future awaits.
Awaited == {"is_session_supported", "request_session",
            "request_reference_space"}

\* C12: the host operations one init() has issued, up to and including
\* any of its steps, are an initial part of the sequence capability query,
\* session request, layer creation, update_render_state, reference-space
\* request: in that order, none twice.  A step issues at most one awaited
\* request, as its last call, so the next operation is issued only by the
\* continuation that was resumed with the result of that request; a
\* future suspended at an await has issued exactly the operations before
\* it; the commit writes only after all five and issues nothing.
C12_NegotiationInOrder ==
    /\ ev.op \in InitOps =>
          LET issued == ev.hist \o ev.calls IN
          /\ Len(issued) <= Len(NegotiationOrder)
          /\ issued = SubSeq(NegotiationOrder, 1, Len(issued))
          /\ \A i \in 1..Len(ev.calls) :
                ev.calls[i].c \in Awaited => i = Len(ev.calls)
          /\ ev.wrote # {} =>
                /\ ev.op = "init_refspace"
                /\ ev.hist = NegotiationOrder
                /\ ev.calls = <<>>
    /\ \A p \in 1..Len(inits) :
          /\ inits[p].pc = "await_supported" =>
                inits[p].calls = SubSeq(NegotiationOrder, 1, 1)
          /\ inits[p].pc = "await_session" =>
                inits[p].calls = SubSeq(NegotiationOrder, 1, 2)
          /\ inits[p].pc = "await_refspace" =>
                inits[p].calls = NegotiationOrder

C12_Witness ==
    /\ ev.op = "init_refspace"
    /\ ev.id = 2
    /\ ev.result = "Ok_true"
    /\ ev.hist = NegotiationOrder
    /\ ev.wrote = {"session", "ref_space"}

\* C13: at most one tick callback is pending with the host on the active
\* session at any time, and a device tick runs at most one frame step,
\* whatever init() and start() calls were made.
C13_OneCallbackPending ==
    /\ Cardinality({i \in 1..Len(pending) :
                       loops[pending[i]].sess = live}) <= 1
    /\ ev.op = "tick" => Len(ev.frames) <= 1

\* C15: a start() whose shader program fails to link logs the failure and
\* goes on: it does not fault, it issues the rest of the setup and it
\* registers the first tick callback.
C15_LinkFailureContinues ==
    (/\ ev.op = "start"
     /\ ev.ans = "nolink"
     /\ Count(ev.calls, "link_program") > 0) =>
        /\ \E i \in 1..Len(ev.logs) : ev.logs[i] = "program link errror"
        /\ ev.out = "started"
        /\ ev.panic = 0
        /\ Count(ev.calls, "create_buffer") = 1
        /\ Count(ev.calls, "request_animation_frame") = 1

\* C16: the GPU setup of start() runs at most once, and every frame step
\* runs with the program in use that the setup of its own loop created.
C16_SetupOnce ==
    /\ gl.setups <= 1
    /\ ev.op = "tick" =>
          \A i \in 1..Len(ev.frames) :
             loops[ev.frames[i].id].prog = gl.program

\* C17: a frame step that finds no render-target descriptor panics at the
\* lookup, having issued no call at all: no framebuffer bind, no clear, no
\* draw and no registration for the next tick.  Its loop is then dead for
\* good: it is never pending again and no later tick runs a frame step of
\* it.
C17_NoLayerIsFatal ==
    [][/\ (ev'.op = "tick" /\ ev'.ans = "nolayer") =>
            \A i \in 1..Len(ev'.frames) :
               /\ ev'.frames[i].out = "panic"
               /\ ev'.frames[i].panic = 251
               /\ ev'.frames[i].calls = <<>>
               /\ ~loops'[ev'.frames[i].id].good
               /\ \A j \in 1..Len(pending') :
                     pending'[j] # ev'.frames[i].id
       /\ \A l \in 1..Len(loops) :
            (~loops[l].good /\ \A j \in 1..Len(pending) : pending[j] # l) =>
               /\ ~loops'[l].good
               /\ \A j \in 1..Len(pending') : pending'[j] # l
               /\ \A i \in 1..Len(ev'.frames) : ev'.frames[i].id # l]_vars

C17_Witness ==
    /\ ev.op = "tick"
    /\ ev.ans = "nolayer"
    /\ Len(ev.frames) = 2
    /\ ev.frames[1].panic = 251
    /\ pending = <<>>

BorrowLines == {109, 112, 122, 260}

\* C20: no borrow of a shared cell ever meets a conflicting borrow that is
\* still held: no step of init(), no start() and no frame step panics at a
\* borrow_mut() or borrow() of the session or ref_space cell.
C20_NoBorrowConflict ==
    /\ ev.panic \notin BorrowLines
    /\ \A i \in 1..Len(ev.frames) : ev.frames[i].panic \notin BorrowLines

====
